---- MODULE Spec2Model ----
(***************************************************************************)
(* State-machine model of spotifyd-epaper-display:                         *)
(*   - main.py: MPRISClient.get_metadata, SpotifydDisplay (start, stop,    *)
(*     _signal_handler, _update_loop, _should_update) and main();          *)
(*   - display_manager.py: DisplayManager._wrap_text.                      *)
(* The poll loop is modelled statement by statement so that a Python       *)
(* signal handler (which runs in the main thread between bytecodes) can be *)
(* interleaved at every point; handlers nest, so they form a stack.        *)
(***************************************************************************)
EXTENDS Integers, Sequences, FiniteSets, TLC

VARIABLES
    pc,             \* position of the main thread (main -> start -> _update_loop -> stop)
    running,        \* SpotifydDisplay.running
    last_metadata,  \* SpotifydDisplay.last_metadata
    metadata,       \* local `metadata` of _update_loop
    player,         \* MPRISClient.player      ("None" or "proxy")
    properties,     \* MPRISClient.properties  ("None" or "proxy")
    handlers,       \* stack of active _signal_handler frames (top = last)
    signals,        \* number of SIGINT/SIGTERM delivered so far
    cleanups,       \* number of calls of DisplayManager.cleanup (driver.sleep)
    exitCode,       \* exit status of the process once pc = "exited"
    frame,          \* view of the frame most recently handed to driver.display
    renderLog,      \* views handed to driver.display, in order
    cur,            \* record of the tick in progress (or the last one)
    prev,           \* record of the tick before it
    scenario,       \* how far the fetches match [Some(T1 Playing), None, None]
    initFailed,     \* display_manager.initialize() raised
    errorSeen,      \* some exception was raised during the run
    update_interval,\* Config.update_interval, in seconds
    slept,          \* the last time.sleep of the loop: after which tick, which one, how long
    fpc,            \* "call" before, "return" after a function applied on its own
    previous,       \* _should_update on its own: self.last_metadata
    current,        \* _should_update on its own: metadata
    decision,       \* _should_update on its own: the value returned
    text,           \* _wrap_text: text
    font,           \* _wrap_text: font (name of a metric)
    max_width,      \* _wrap_text: max_width
    lines,          \* _wrap_text: result
    position_micros,\* update_display: metadata['position']
    length_micros,  \* update_display: metadata['length']
    drawn           \* update_display: what was drawn below the text

loopVars == <<pc, running, last_metadata, metadata, player, properties, handlers,
              signals, cleanups, exitCode, frame, renderLog, cur, prev, scenario,
              initFailed, errorSeen>>
decideVars == <<previous, current, decision>>
wrapVars == <<text, font, max_width, lines>>
timeVars == <<update_interval, slept>>
renderVars == <<position_micros, length_micros, drawn>>
vars == <<loopVars, timeVars, fpc, decideVars, wrapVars, renderVars>>

(***************************************************************************)
(* Bounds                                                                  *)
(***************************************************************************)
MaxTicks == 3
MaxSignals == 2
MaxLen == 5
MaxWidth == 5
MaxInterval == 6
MaxHalfSeconds == 9

(***************************************************************************)
(* Program constants                                                       *)
(***************************************************************************)
DefaultUpdateInterval == 1
BackoffSeconds == 5
MicrosPerSecond == 1000000
display_width == 250
margin == 5

(***************************************************************************)
(* Snapshots (the dict returned by get_metadata, or None)                  *)
(***************************************************************************)
Titles == {"T1", "T2"}
Artists == {"A1", "A2"}
Albums == {"X1", "X2"}
Statuses == {"Playing", "Paused", "Stopped"}

\* Python None, kept in the shape of a snapshot so that it compares with one
None == [title |-> "-", artist |-> "-", album |-> "-", status |-> "-"]

TrackSnapshots == [title : Titles, artist : Artists, album : Albums, status : Statuses]

\* snapshots the player of the poll-loop model can report
Fetchable ==
    {s \in TrackSnapshots : s.artist = "A1" /\ (s.title = "T1" \/ s.album = "X1")}

Track1Playing == [title |-> "T1", artist |-> "A1", album |-> "X1", status |-> "Playing"]

(***************************************************************************)
(* SpotifydDisplay._should_update                                          *)
(***************************************************************************)
_should_update_no_artist(last, md) ==
    IF md = None /\ last = None THEN FALSE
    ELSE IF md = None \/ last = None THEN TRUE
    ELSE IF md.title # last.title THEN TRUE
    ELSE IF md.status # last.status THEN TRUE
    ELSE IF md.status = "Playing" THEN TRUE
    ELSE FALSE

_should_update(last, md) ==
    IF md = None /\ last = None THEN FALSE
    ELSE IF md = None \/ last = None THEN TRUE
    ELSE IF md.title # last.title \/ md.artist # last.artist THEN TRUE
    ELSE IF md.status # last.status THEN TRUE
    ELSE IF md.status = "Playing" THEN TRUE
    ELSE FALSE

(***************************************************************************)
(* Tick records (history of the poll loop)                                 *)
(***************************************************************************)
NoTick == [n |-> 0, md |-> None, fetch |-> "none", discovered |-> FALSE,
           last |-> None, decided |-> FALSE, attempted |-> "none",
           rendered |-> "none", err |-> FALSE, done |-> FALSE]

NewTick(md, kind, disc) ==
    [n |-> cur.n + 1, md |-> md, fetch |-> kind, discovered |-> disc,
     last |-> last_metadata, decided |-> FALSE, attempted |-> "none",
     rendered |-> "none", err |-> FALSE, done |-> FALSE]

\* progress of the fetches along the sequence [Some(Track1 Playing), None, None]
ScenarioStep(md) ==
    IF scenario = 0 /\ cur.n = 0 /\ md = Track1Playing THEN 1
    ELSE IF scenario = 1 /\ md = None THEN 2
    ELSE IF scenario = 2 /\ md = None THEN 3
    ELSE -1

(***************************************************************************)
(* Initial state: after SpotifydDisplay.__init__ (main.py:127-136), which  *)
(* runs MPRISClient.__init__ and with it one _find_player().               *)
(***************************************************************************)
LoopInit ==
    /\ pc = "start"
    /\ running = FALSE
    /\ last_metadata = None
    /\ metadata = None
    /\ \/ player = "None" /\ properties = "None"
       \/ player = "proxy" /\ properties = "None"
       \/ player = "proxy" /\ properties = "proxy"
    /\ handlers = <<>>
    /\ signals = 0
    /\ cleanups = 0
    /\ exitCode = -1
    /\ frame = "none"
    /\ renderLog = <<>>
    /\ cur = NoTick
    /\ prev = NoTick
    /\ scenario = 0
    /\ initFailed = FALSE
    /\ errorSeen = FALSE

NoSleep == [tick |-> 0, kind |-> "none", secs |-> 0]
NothingDrawn == [bar |-> FALSE, fill_width |-> 0, label |-> FALSE, time_text |-> <<>>]

ConfigDefault == update_interval = DefaultUpdateInterval /\ slept = NoSleep
DecideIdle == previous = None /\ current = None /\ decision = FALSE
WrapIdle == text = <<>> /\ font = "mono" /\ max_width = 1 /\ lines = <<>>
RenderIdle == position_micros = 0 /\ length_micros = 0 /\ drawn = NothingDrawn

Init == LoopInit /\ ConfigDefault /\ fpc = "call" /\ DecideIdle /\ WrapIdle /\ RenderIdle

\* the main thread runs only while no signal handler is active
MainRuns == handlers = <<>>

fnUnchanged == UNCHANGED <<fpc, decideVars, wrapVars, renderVars>>
restUnchanged == UNCHANGED timeVars /\ fnUnchanged

(***************************************************************************)
(* SpotifydDisplay.start                                                   *)
(***************************************************************************)
Start ==
    /\ MainRuns /\ pc = "start"
    /\ running' = TRUE
    /\ pc' = "initialize"
    /\ UNCHANGED <<last_metadata, metadata, player, properties, handlers, signals,
                   cleanups, exitCode, frame, renderLog, cur, prev, scenario,
                   initFailed, errorSeen>>
    /\ restUnchanged

InitializeOk ==
    /\ MainRuns /\ pc = "initialize"
    /\ pc' = "loop"
    /\ UNCHANGED <<running, last_metadata, metadata, player, properties, handlers,
                   signals, cleanups, exitCode, frame, renderLog, cur, prev,
                   scenario, initFailed, errorSeen>>
    /\ restUnchanged

\* driver.init() raises: start()'s except logs it, then the finally runs stop()
InitializeFails ==
    /\ MainRuns /\ pc = "initialize"
    /\ pc' = "stop"
    /\ initFailed' = TRUE
    /\ errorSeen' = TRUE
    /\ UNCHANGED <<running, last_metadata, metadata, player, properties, handlers,
                   signals, cleanups, exitCode, frame, renderLog, cur, prev,
                   scenario>>
    /\ restUnchanged

(***************************************************************************)
(* MPRISClient._find_player: the outcomes it can leave in (player,         *)
(* properties).  bus.get and the properties lookup may each raise for any  *)
(* name; a name whose bus.get succeeds and whose lookup raises leaves      *)
(* self.player assigned and self.properties as it was.                     *)
(***************************************************************************)
_find_player(p, pr) ==
    { <<"proxy", "proxy">>,    \* a player was found
      <<"proxy", pr>>,         \* bus.get succeeded, the properties lookup raised
      <<p, pr>> }              \* nothing found, or ListNames raised

(***************************************************************************)
(* MPRISClient.get_metadata: the set of outcomes of one call               *)
(***************************************************************************)
Outcome(p, pr, md, kind, disc) ==
    [player |-> p, properties |-> pr, md |-> md, kind |-> kind, discovered |-> disc]

get_metadata_keeps_player(p, pr) ==
    LET needFind == p = "None" \/ pr = "None"
        found == IF needFind THEN _find_player(p, pr) ELSE {<<p, pr>>}
    IN  UNION { IF f[1] = "None"
                    THEN {Outcome(f[1], f[2], None, "noplayer", needFind)}
                ELSE IF f[2] = "None"
                    THEN {Outcome(f[1], f[2], None, "raised", needFind)}
                ELSE {Outcome(f[1], f[2], None, "raised", needFind),
                      Outcome(f[1], f[2], None, "empty", needFind)}
                     \cup {Outcome(f[1], f[2], s, "ok", needFind) : s \in Fetchable}
              : f \in found }

get_metadata(p, pr) ==
    LET needFind == p = "None" \/ pr = "None"
        found == IF needFind THEN _find_player(p, pr) ELSE {<<p, pr>>}
    IN  UNION { IF f[1] = "None"
                    \* no player after discovery: return None
                    THEN {Outcome(f[1], f[2], None, "noplayer", needFind)}
                ELSE IF f[2] = "None"
                    \* self.properties is None: Get raises AttributeError
                    THEN {Outcome("None", f[2], None, "raised", needFind)}
                ELSE {Outcome("None", f[2], None, "raised", needFind),   \* a D-Bus read raised
                      Outcome(f[1], f[2], None, "empty", needFind)}      \* empty Metadata
                     \cup {Outcome(f[1], f[2], s, "ok", needFind) : s \in Fetchable}
              : f \in found }

(***************************************************************************)
(* SpotifydDisplay._update_loop                                            *)
(***************************************************************************)
LoopCheck ==
    /\ MainRuns /\ pc = "loop"
    /\ pc' = IF running THEN "fetch" ELSE "stop"
    /\ UNCHANGED <<running, last_metadata, metadata, player, properties, handlers,
                   signals, cleanups, exitCode, frame, renderLog, cur, prev,
                   scenario, initFailed, errorSeen>>
    /\ restUnchanged

Fetch ==
    /\ MainRuns /\ pc = "fetch"
    /\ cur.n < MaxTicks
    /\ \E o \in get_metadata(player, properties) :
          /\ metadata' = o.md
          /\ player' = o.player
          /\ properties' = o.properties
          /\ cur' = NewTick(o.md, o.kind, o.discovered)
          /\ scenario' = ScenarioStep(o.md)
    /\ prev' = cur
    /\ pc' = "decide"
    /\ UNCHANGED <<running, last_metadata, handlers, signals, cleanups, exitCode,
                   frame, renderLog, initFailed, errorSeen>>
    /\ restUnchanged

Decide ==
    /\ MainRuns /\ pc = "decide"
    /\ LET d == _should_update(last_metadata, metadata)
           target == IF ~d THEN "none"
                     ELSE IF metadata # None THEN "playing"
                     ELSE IF last_metadata # None THEN "idle"
                     ELSE "none"
       IN  /\ cur' = [cur EXCEPT !.decided = TRUE, !.attempted = target,
                                 !.done = (target = "none")]
           /\ pc' = CASE target = "playing" -> "update_display"
                      [] target = "idle" -> "show_idle"
                      [] OTHER -> "sleep"
    /\ UNCHANGED <<running, last_metadata, metadata, player, properties, handlers,
                   signals, cleanups, exitCode, frame, renderLog, prev, scenario,
                   initFailed, errorSeen>>
    /\ restUnchanged

\* update_display(metadata) returns: the frame went to driver.display
UpdateDisplayOk ==
    /\ MainRuns /\ pc = "update_display"
    /\ frame' = "playing"
    /\ renderLog' = Append(renderLog, "playing")
    /\ last_metadata' = metadata
    /\ cur' = [cur EXCEPT !.rendered = "playing", !.done = TRUE]
    /\ pc' = "sleep"
    /\ UNCHANGED <<running, metadata, player, properties, handlers, signals,
                   cleanups, exitCode, prev, scenario, initFailed, errorSeen>>
    /\ restUnchanged

UpdateDisplayFails_assigns_first ==
    /\ MainRuns /\ pc = "update_display"
    /\ last_metadata' = metadata
    /\ cur' = [cur EXCEPT !.err = TRUE]
    /\ errorSeen' = TRUE
    /\ pc' = "backoff"
    /\ UNCHANGED <<running, metadata, player, properties, handlers, signals,
                   cleanups, exitCode, frame, renderLog, prev, scenario, initFailed>>
    /\ restUnchanged

\* update_display(metadata) raises (drawing or driver.display): except Exception
UpdateDisplayFails ==
    /\ MainRuns /\ pc = "update_display"
    /\ cur' = [cur EXCEPT !.err = TRUE]
    /\ errorSeen' = TRUE
    /\ pc' = "backoff"
    /\ UNCHANGED <<running, last_metadata, metadata, player, properties, handlers,
                   signals, cleanups, exitCode, frame, renderLog, prev, scenario,
                   initFailed>>
    /\ restUnchanged

ShowIdleOk_keeps_last ==
    /\ MainRuns /\ pc = "show_idle"
    /\ frame' = "idle"
    /\ renderLog' = Append(renderLog, "idle")
    /\ cur' = [cur EXCEPT !.rendered = "idle", !.done = TRUE]
    /\ pc' = "sleep"
    /\ UNCHANGED <<running, last_metadata, metadata, player, properties, handlers,
                   signals, cleanups, exitCode, prev, scenario, initFailed, errorSeen>>
    /\ restUnchanged

\* show_idle() returns: the idle frame went to driver.display
ShowIdleOk ==
    /\ MainRuns /\ pc = "show_idle"
    /\ frame' = "idle"
    /\ renderLog' = Append(renderLog, "idle")
    /\ last_metadata' = None
    /\ cur' = [cur EXCEPT !.rendered = "idle", !.done = TRUE]
    /\ pc' = "sleep"
    /\ UNCHANGED <<running, metadata, player, properties, handlers, signals,
                   cleanups, exitCode, prev, scenario, initFailed, errorSeen>>
    /\ restUnchanged

ShowIdleFails ==
    /\ MainRuns /\ pc = "show_idle"
    /\ cur' = [cur EXCEPT !.err = TRUE]
    /\ errorSeen' = TRUE
    /\ pc' = "backoff"
    /\ UNCHANGED <<running, last_metadata, metadata, player, properties, handlers,
                   signals, cleanups, exitCode, frame, renderLog, prev, scenario,
                   initFailed>>
    /\ restUnchanged

\* time.sleep(self.config.update_interval)
Sleep ==
    /\ MainRuns /\ pc = "sleep"
    /\ pc' = "loop"
    /\ slept' = [tick |-> cur.n, kind |-> "normal", secs |-> update_interval]
    /\ UNCHANGED <<running, last_metadata, metadata, player, properties, handlers,
                   signals, cleanups, exitCode, frame, renderLog, cur, prev,
                   scenario, initFailed, errorSeen, update_interval>>
    /\ fnUnchanged

\* time.sleep(5) in the except clause
Backoff ==
    /\ MainRuns /\ pc = "backoff"
    /\ pc' = "loop"
    /\ slept' = [tick |-> cur.n, kind |-> "backoff", secs |-> BackoffSeconds]
    /\ UNCHANGED <<running, last_metadata, metadata, player, properties, handlers,
                   signals, cleanups, exitCode, frame, renderLog, cur, prev,
                   scenario, initFailed, errorSeen, update_interval>>
    /\ fnUnchanged

(***************************************************************************)
(* SpotifydDisplay.stop, called from start()'s finally; afterwards start() *)
(* returns, main() returns and the process exits with status 0, unless     *)
(* cleanup raised, which main() turns into sys.exit(1).                    *)
(***************************************************************************)
StopCheck ==
    /\ MainRuns /\ pc = "stop"
    /\ IF running
          THEN pc' = "stop_set" /\ exitCode' = exitCode
          ELSE pc' = "exited" /\ exitCode' = 0
    /\ UNCHANGED <<running, last_metadata, metadata, player, properties, handlers,
                   signals, cleanups, frame, renderLog, cur, prev, scenario,
                   initFailed, errorSeen>>
    /\ restUnchanged

StopSet ==
    /\ MainRuns /\ pc = "stop_set"
    /\ running' = FALSE
    /\ pc' = "stop_cleanup"
    /\ UNCHANGED <<last_metadata, metadata, player, properties, handlers, signals,
                   cleanups, exitCode, frame, renderLog, cur, prev, scenario,
                   initFailed, errorSeen>>
    /\ restUnchanged

StopCleanupOk ==
    /\ MainRuns /\ pc = "stop_cleanup"
    /\ cleanups' = cleanups + 1
    /\ pc' = "exited"
    /\ exitCode' = 0
    /\ UNCHANGED <<running, last_metadata, metadata, player, properties, handlers,
                   signals, frame, renderLog, cur, prev, scenario, initFailed,
                   errorSeen>>
    /\ restUnchanged

\* driver.sleep() raises inside the finally: main() logs it and calls sys.exit(1)
StopCleanupFails ==
    /\ MainRuns /\ pc = "stop_cleanup"
    /\ cleanups' = cleanups + 1
    /\ errorSeen' = TRUE
    /\ pc' = "exited"
    /\ exitCode' = 1
    /\ UNCHANGED <<running, last_metadata, metadata, player, properties, handlers,
                   signals, frame, renderLog, cur, prev, scenario, initFailed>>
    /\ restUnchanged

(***************************************************************************)
(* SpotifydDisplay._signal_handler -> stop(), run on top of whatever the   *)
(* main thread (or an earlier handler) was doing.                          *)
(***************************************************************************)
Top == handlers[Len(handlers)]
Pop == SubSeq(handlers, 1, Len(handlers) - 1)
SetTop(h) == [handlers EXCEPT ![Len(handlers)] = h]

Signal ==
    /\ pc # "exited"
    /\ signals < MaxSignals
    /\ signals' = signals + 1
    /\ handlers' = Append(handlers, "check")
    /\ UNCHANGED <<pc, running, last_metadata, metadata, player, properties,
                   cleanups, exitCode, frame, renderLog, cur, prev, scenario,
                   initFailed, errorSeen>>
    /\ restUnchanged

HandlerCheck ==
    /\ handlers # <<>> /\ Top = "check"
    /\ handlers' = IF running THEN SetTop("set") ELSE Pop
    /\ UNCHANGED <<pc, running, last_metadata, metadata, player, properties,
                   signals, cleanups, exitCode, frame, renderLog, cur, prev,
                   scenario, initFailed, errorSeen>>
    /\ restUnchanged

HandlerSet ==
    /\ handlers # <<>> /\ Top = "set"
    /\ running' = FALSE
    /\ handlers' = SetTop("cleanup")
    /\ UNCHANGED <<pc, last_metadata, metadata, player, properties, signals,
                   cleanups, exitCode, frame, renderLog, cur, prev, scenario,
                   initFailed, errorSeen>>
    /\ restUnchanged

HandlerCleanupOk ==
    /\ handlers # <<>> /\ Top = "cleanup"
    /\ cleanups' = cleanups + 1
    /\ handlers' = Pop
    /\ UNCHANGED <<pc, running, last_metadata, metadata, player, properties,
                   signals, exitCode, frame, renderLog, cur, prev, scenario,
                   initFailed, errorSeen>>
    /\ restUnchanged

\* where an exception raised by a handler lands in the main thread
InTick == pc \in {"fetch", "decide", "update_display", "show_idle", "sleep"}
InTickBody == pc \in {"decide", "update_display", "show_idle", "sleep"}
InStop == pc \in {"stop", "stop_set", "stop_cleanup"}

\* driver.sleep() raises in a handler: the exception unwinds every handler
\* frame and is raised in the main thread at the point it was interrupted
HandlerCleanupFails ==
    /\ handlers # <<>> /\ Top = "cleanup"
    /\ cleanups' = cleanups + 1
    /\ handlers' = <<>>
    /\ errorSeen' = TRUE
    /\ pc' = IF InTick THEN "backoff"              \* except Exception in the loop
             ELSE IF InStop THEN "exited"           \* out of the finally, into main()
             ELSE "stop"                            \* start()'s except, then finally
    /\ exitCode' = IF InStop THEN 1 ELSE exitCode
    /\ cur' = IF InTickBody THEN [cur EXCEPT !.err = TRUE] ELSE cur
    /\ UNCHANGED <<running, last_metadata, metadata, player, properties, signals,
                   frame, renderLog, prev, scenario, initFailed>>
    /\ restUnchanged

Next ==
    \/ Start \/ InitializeOk \/ InitializeFails
    \/ LoopCheck \/ Fetch \/ Decide
    \/ UpdateDisplayOk \/ UpdateDisplayFails \/ ShowIdleOk \/ ShowIdleFails
    \/ Sleep \/ Backoff
    \/ StopCheck \/ StopSet \/ StopCleanupOk \/ StopCleanupFails
    \/ Signal \/ HandlerCheck \/ HandlerSet \/ HandlerCleanupOk \/ HandlerCleanupFails

Spec == Init /\ [][Next]_vars

\* the poll loop under every configured update_interval of 1..MaxInterval seconds
InitConfig ==
    /\ LoopInit
    /\ update_interval \in 1..MaxInterval
    /\ slept = NoSleep
    /\ fpc = "call" /\ DecideIdle /\ WrapIdle /\ RenderIdle

SpecConfig == InitConfig /\ [][Next]_vars

(***************************************************************************)
(* _should_update applied on its own to every pair (previous, current)     *)
(***************************************************************************)
InitDecide ==
    /\ LoopInit /\ ConfigDefault /\ WrapIdle /\ RenderIdle
    /\ fpc = "call"
    /\ previous \in TrackSnapshots \cup {None}
    /\ current \in TrackSnapshots \cup {None}
    /\ decision = FALSE

CallShouldUpdate ==
    /\ fpc = "call"
    /\ decision' = _should_update(previous, current)
    /\ fpc' = "return"
    /\ UNCHANGED <<loopVars, timeVars, previous, current, wrapVars, renderVars>>

NextDecide == CallShouldUpdate

SpecDecide == InitDecide /\ [][NextDecide]_vars

(***************************************************************************)
(* DisplayManager._wrap_text.  A text is a sequence of characters; a font  *)
(* measures a string by the sum of the advances of its characters.         *)
(***************************************************************************)
Chars == {"a", "W", " ", "\t"}
Fonts == {"mono", "prop"}

IsSpace(c) == c \in {" ", "\t"}

\* advance of one character in a font
CharWidth(f, c) ==
    IF f = "mono" THEN 1
    ELSE CASE c = "a" -> 1
           [] c = "W" -> 5
           [] c = " " -> 2
           [] OTHER -> 4

\* temp_draw.textbbox((0, 0), s, font=font): bbox[2] - bbox[0]
RECURSIVE textwidth(_, _)
textwidth(f, s) ==
    IF s = <<>> THEN 0 ELSE CharWidth(f, Head(s)) + textwidth(f, Tail(s))

\* str.split(): the maximal runs of non-whitespace characters, in order
RECURSIVE SplitAcc(_, _, _)
SplitAcc(t, word, acc) ==
    IF t = <<>> THEN (IF word = <<>> THEN acc ELSE Append(acc, word))
    ELSE IF IsSpace(Head(t))
        THEN SplitAcc(Tail(t), <<>>, IF word = <<>> THEN acc ELSE Append(acc, word))
    ELSE SplitAcc(Tail(t), Append(word, Head(t)), acc)

split(t) == SplitAcc(t, <<>>, <<>>)

\* ' '.join(words)
RECURSIVE join(_)
join(words) ==
    IF words = <<>> THEN <<>>
    ELSE IF Len(words) = 1 THEN words[1]
    ELSE words[1] \o <<" ">> \o join(Tail(words))

\* one iteration of `for word in words`
WrapStep_drops_long(st, word, f, mw) ==
    LET test_line == join(Append(st.current_line, word))
        width == textwidth(f, test_line)
    IN  IF width <= mw
            THEN [st EXCEPT !.current_line = Append(@, word)]
        ELSE IF st.current_line # <<>>
            THEN [lines |-> Append(st.lines, join(st.current_line)),
                  current_line |-> <<word>>]
        ELSE st

WrapStep_measures_word(st, word, f, mw) ==
    LET width == textwidth(f, word)
    IN  IF width <= mw
            THEN [st EXCEPT !.current_line = Append(@, word)]
        ELSE IF st.current_line # <<>>
            THEN [lines |-> Append(st.lines, join(st.current_line)),
                  current_line |-> <<word>>]
        ELSE [st EXCEPT !.lines = Append(@, word)]

WrapStep_strict(st, word, f, mw) ==
    LET test_line == join(Append(st.current_line, word))
        width == textwidth(f, test_line)
    IN  IF width < mw
            THEN [st EXCEPT !.current_line = Append(@, word)]
        ELSE IF st.current_line # <<>>
            THEN [lines |-> Append(st.lines, join(st.current_line)),
                  current_line |-> <<word>>]
        ELSE [st EXCEPT !.lines = Append(@, word)]

WrapStep(st, word, f, mw) ==
    LET test_line == join(Append(st.current_line, word))
        width == textwidth(f, test_line)
    IN  IF width <= mw
            THEN [st EXCEPT !.current_line = Append(@, word)]
        ELSE IF st.current_line # <<>>
            THEN [lines |-> Append(st.lines, join(st.current_line)),
                  current_line |-> <<word>>]
        \* single word is too long, add it anyway
        ELSE [st EXCEPT !.lines = Append(@, word)]

RECURSIVE WrapWords(_, _, _, _)
WrapWords(words, st, f, mw) ==
    IF words = <<>> THEN st
    ELSE WrapWords(Tail(words), WrapStep(st, Head(words), f, mw), f, mw)

_wrap_text(t, f, mw) ==
    IF t = <<>> THEN << <<>> >>
    ELSE LET st == WrapWords(split(t), [lines |-> <<>>, current_line |-> <<>>], f, mw)
             out == IF st.current_line # <<>>
                        THEN Append(st.lines, join(st.current_line))
                        ELSE st.lines
         IN  IF out # <<>> THEN out ELSE << <<>> >>

\* every text of at most MaxLen characters
Texts == UNION {[1..n -> Chars] : n \in 0..MaxLen}

InitWrap ==
    /\ LoopInit /\ ConfigDefault /\ DecideIdle /\ RenderIdle
    /\ fpc = "call"
    /\ text \in Texts
    /\ font \in Fonts
    /\ max_width \in 1..MaxWidth
    /\ lines = <<>>

CallWrapText ==
    /\ fpc = "call"
    /\ lines' = _wrap_text(text, font, max_width)
    /\ fpc' = "return"
    /\ UNCHANGED <<loopVars, timeVars, decideVars, text, font, max_width, renderVars>>

NextWrap == CallWrapText

SpecWrap == InitWrap /\ [][NextWrap]_vars

(***************************************************************************)
(* DisplayManager.update_display: the progress bar and the time label.     *)
(* Within the lengths modelled (at most MaxHalfSeconds + 1 half seconds)   *)
(* the float expression int(bar_width * min(1.0, max(0.0, position /       *)
(* length))) equals the integer quotient used here; for longer tracks the  *)
(* rounding of the division can make it one less (position 41 s of 80 s    *)
(* gives 122, not 123, of 240).                                            *)
(***************************************************************************)
\* DisplayManager._format_time: (minutes, seconds)
_format_time(seconds) == <<seconds \div 60, seconds % 60>>

update_display(pos, len) ==
    LET position == pos \div MicrosPerSecond     \* convert to seconds
        length == len \div MicrosPerSecond
        bar_width == display_width - 2 * margin
        \* progress = min(1.0, max(0.0, position / length)); int(bar_width * progress)
        fill == IF position >= length THEN bar_width
                ELSE (bar_width * position) \div length
    IN  IF length > 0
            THEN [bar |-> TRUE, fill_width |-> fill, label |-> TRUE,
                  time_text |-> <<_format_time(position), _format_time(length)>>]
            ELSE NothingDrawn

\* positions and lengths in steps of half a second
Micros == {k * (MicrosPerSecond \div 2) : k \in 0..MaxHalfSeconds}

InitRender ==
    /\ LoopInit /\ ConfigDefault /\ DecideIdle /\ WrapIdle
    /\ fpc = "call"
    /\ position_micros \in Micros
    /\ length_micros \in Micros
    /\ drawn = NothingDrawn

CallUpdateDisplay ==
    /\ fpc = "call"
    /\ drawn' = update_display(position_micros, length_micros)
    /\ fpc' = "return"
    /\ UNCHANGED <<loopVars, timeVars, decideVars, wrapVars, position_micros,
                   length_micros>>

NextRender == CallUpdateDisplay

SpecRender == InitRender /\ [][NextRender]_vars

(***************************************************************************)
(* Properties of the update decision and of the poll loop                  *)
(***************************************************************************)
Differs(p, c) == c.title # p.title \/ c.artist # p.artist \/ c.status # p.status

\* the five cases of the update decision, as a table
ShouldUpdateTable(p, c) ==
    CASE p = None /\ c = None -> FALSE
      [] (p = None) # (c = None) -> TRUE
      [] p # None /\ c # None /\ Differs(p, c) -> TRUE
      [] p # None /\ c # None /\ ~Differs(p, c) /\ c.status = "Playing" -> TRUE
      [] OTHER -> FALSE

\* C1: for every pair (previous, current) _should_update returns false when
\* both are absent, true when exactly one is absent, true when both are
\* present and title, artist or status differs, true when none of them
\* differs and the current status is Playing, and false otherwise.
Thm_C1 == fpc = "return" => (decision = ShouldUpdateTable(previous, current))

Wit_C1 ==
    /\ fpc = "return"
    /\ previous # None /\ current # None
    /\ ~Differs(previous, current)
    /\ current.status = "Paused"
    /\ previous.album # current.album
    /\ decision = FALSE

\* C2: in an error-free run, an absent snapshot that follows a present one
\* is answered by one idle render on that tick, an absent snapshot that
\* follows an absent one by no render, and the fetches
\* [Some(Track1 Playing), None, None] from a fresh start give exactly the
\* renders playing, idle.
Thm_C2 ==
    ~errorSeen =>
        /\ (cur.done /\ cur.n > 1 /\ cur.md = None /\ prev.md # None)
              => cur.rendered = "idle"
        /\ (cur.done /\ cur.n > 1 /\ cur.md = None /\ prev.md = None)
              => cur.rendered = "none"
        /\ (cur.decided /\ cur.n > 1 /\ cur.md = None /\ prev.md = None)
              => cur.attempted = "none"
        /\ (scenario = 3 /\ cur.done) => renderLog = <<"playing", "idle">>

Wit_C2 ==
    /\ ~errorSeen
    /\ scenario = 3 /\ cur.done /\ cur.n = 3
    /\ prev.rendered = "idle" /\ cur.rendered = "none"
    /\ renderLog = <<"playing", "idle">>

\* C3: after every tick that completes without error and whose fetched
\* snapshot is absent, the frame most recently handed to the output driver
\* is the idle view.
Cex_C3 ==
    (cur.n >= 1 /\ cur.done /\ ~cur.err /\ cur.md = None) => frame = "idle"

\* a tick whose render was attempted and raised
RenderFailed(t) == t.n >= 1 /\ t.err /\ t.attempted # "none" /\ t.rendered = "none"

\* C4: a render or present failure leaves running and last_metadata as they
\* were, and the next tick that fetches the same snapshot attempts the same
\* render again, whatever the status of the snapshot.
Thm_C4 ==
    /\ [][(handlers = <<>> /\ pc \in {"update_display", "show_idle"} /\ pc' = "backoff")
            => (running' = running /\ last_metadata' = last_metadata)]_vars
    /\ [](RenderFailed(cur) => last_metadata = cur.last)
    /\ []((cur.decided /\ RenderFailed(prev) /\ cur.md = prev.md)
            => cur.attempted = prev.attempted)

Wit_C4 ==
    /\ cur.decided /\ RenderFailed(prev) /\ cur.md = prev.md
    /\ cur.md # None /\ cur.md.status = "Paused"
    /\ prev.last # None /\ prev.last.title = cur.md.title
    /\ cur.attempted = "playing"
    /\ running

\* C5: if display_manager.initialize() raises, no tick runs, the application
\* ends Stopped and the process exits with a non-zero status.
Cex_C5 ==
    initFailed => /\ cur.n = 0
                  /\ pc = "exited" => (~running /\ exitCode # 0)

\* C6: in every run that reached start(), DisplayManager.cleanup has been
\* invoked exactly once when the process exits.
Cex_C6 == pc = "exited" => cleanups = 1

FetchFailed(t) == t.fetch \in {"noplayer", "raised"}

\* C7: a failed fetch (no player, or a D-Bus read raising) returns None to the
\* loop without raising, leaves running alone, makes the tick render the idle
\* view when a track was rendered last, and the next fetch runs the player
\* discovery again.
Thm_C7 ==
    /\ [][(handlers = <<>> /\ pc = "fetch" /\ pc' # pc)
            => (pc' = "decide" /\ running' = running)]_vars
    /\ [](FetchFailed(cur) => cur.md = None)
    /\ []((FetchFailed(cur) /\ cur.decided /\ cur.last # None)
            => cur.attempted = "idle")
    /\ []((cur.n >= 2 /\ FetchFailed(prev)) => cur.discovered)

Wit_C7 ==
    /\ cur.n >= 2 /\ prev.fetch = "raised"
    /\ prev.last # None /\ prev.rendered = "idle"
    /\ cur.discovered /\ cur.fetch = "ok"
    /\ running

(***************************************************************************)
(* Properties of _wrap_text                                                *)
(***************************************************************************)
\* the words of all the lines of a result, in order
RECURSIVE WordsOf(_)
WordsOf(ls) == IF ls = <<>> THEN <<>> ELSE split(Head(ls)) \o WordsOf(Tail(ls))

\* str.strip()
RECURSIVE lstrip(_)
lstrip(t) == IF t # <<>> /\ IsSpace(Head(t)) THEN lstrip(Tail(t)) ELSE t

RECURSIVE rstrip(_)
rstrip(t) ==
    IF t # <<>> /\ IsSpace(t[Len(t)]) THEN rstrip(SubSeq(t, 1, Len(t) - 1)) ELSE t

strip(t) == rstrip(lstrip(t))

TooWide(w) == textwidth(font, w) > max_width

\* C8: the words of the returned lines, in order, are the whitespace-split
\* words of the input, in order, words wider than max_width included; there
\* is at least one line, and an input without words gives one empty line.
Thm_C8 ==
    fpc = "return" =>
        /\ WordsOf(lines) = split(text)
        /\ Len(lines) >= 1
        /\ split(text) = <<>> => lines = << <<>> >>

Wit_C8 ==
    /\ fpc = "return"
    /\ Len(lines) >= 3
    /\ \E i \in 1..Len(lines) : TooWide(lines[i])
    /\ \E i \in 1..Len(lines) : Len(split(lines[i])) = 1 /\ ~TooWide(lines[i])
    /\ WordsOf(lines) = split(text)

\* C9: a returned line of more than one word is at most max_width wide; a
\* line wider than max_width is a single word that is itself too wide.
Thm_C9 ==
    fpc = "return" =>
        \A i \in 1..Len(lines) :
            /\ Len(split(lines[i])) > 1 => textwidth(font, lines[i]) <= max_width
            /\ TooWide(lines[i]) => split(lines[i]) = <<lines[i]>>

Wit_C9 ==
    /\ fpc = "return"
    /\ Len(lines) >= 2
    /\ \E i \in 1..Len(lines) :
          Len(split(lines[i])) > 1 /\ textwidth(font, lines[i]) = max_width
    /\ \E i \in 1..Len(lines) : TooWide(lines[i])

\* the words of t are separated by single space characters
SingleSpaced(t) ==
    \A i \in 1..Len(strip(t)) :
        IsSpace(strip(t)[i]) => (strip(t)[i] = " " /\ ~IsSpace(strip(t)[i + 1]))

Cex_C11 ==
    fpc = "return" =>
        /\ length_micros > 0 => (drawn.bar /\ drawn.label)
        /\ length_micros = 0 => (~drawn.bar /\ ~drawn.label)

\* floor(bar_width * clamp(position / length, 0, 1)) on the microsecond values
FillOfMicros(pos, len) ==
    IF pos >= len THEN display_width - 10
    ELSE ((display_width - 10) * pos) \div len

\* C12: for length_micros > 0 the fill width of the bar is
\* floor(bar_width * clamp(position_micros / length_micros, 0, 1)) with
\* bar_width = width - 10.
Cex_C12 ==
    (fpc = "return" /\ length_micros > 0) =>
        /\ drawn.bar
        /\ drawn.fill_width = FillOfMicros(position_micros, length_micros)

(***************************************************************************)
(* Properties of shutdown, backoff and staleness in the poll loop          *)
(***************************************************************************)
\* between the fetch of a tick and the end of its render
MidTick == pc \in {"decide", "update_display", "show_idle"}

\* C13: cleanup is never invoked between the fetch of a tick and the end of
\* its render, and no frame is handed to driver.display once cleanup
\* (driver.sleep) has been called.
Cex_C13 ==
    /\ [][(cleanups' # cleanups) => ~MidTick]_vars
    /\ [][(renderLog' # renderLog) => cleanups = 0]_vars

\* C14: the pause that follows a tick that raised is the backoff, not the
\* normal sleep, and it is strictly longer than update_interval.
Cex_C14 ==
    (cur.err /\ slept.tick = cur.n /\ slept.kind # "none") =>
        /\ slept.kind = "backoff"
        /\ slept.secs > update_interval

\* C15: after every error-free tick whose fetched snapshot is present,
\* last_metadata agrees with it on title, artist, album and status.
Cex_C15 ==
    (cur.n >= 1 /\ cur.done /\ ~cur.err /\ cur.md # None) =>
        /\ last_metadata # None
        /\ last_metadata.title = cur.md.title
        /\ last_metadata.artist = cur.md.artist
        /\ last_metadata.album = cur.md.album
        /\ last_metadata.status = cur.md.status

====
